---- MODULE Spec2Model ----
(***************************************************************************)
(* EcoAgent: the orchestrator (agente/eco_agent.py), its retrieval         *)
(* pipeline (agente/rag_pipeline.py) and its capabilities                  *)
(* (agente/tools.py), as one state machine.                                *)
(*                                                                         *)
(* The program is single threaded: one public call runs at a time.  pc     *)
(* is the position inside the call in progress ("idle" between calls).     *)
(* Calls into the model provider and into the agent framework are the      *)
(* only nondeterminism: each may return or raise.                          *)
(***************************************************************************)
EXTENDS Integers, Sequences, FiniteSets, TLC

\* ------------------------------------------------------------------ bounds

\* process_query calls counted by stats before the model stops taking more
MaxInteractions == 3

\* ------------------------------------------------------- program constants

\* max_iterations handed to the agent executor
AGENT_MAX_ITERATIONS == 5

\* number of Tool objects create_tools registers
NumTools == 4

\* ------------------------------------------------------------------- state

VARIABLES
    openai_api_key,        \* TRUE iff a credential is configured (argument or environment)
    use_simulated_model,   \* EcoAgent.use_simulated_model
    pipeline,              \* the EcoRAGPipeline object built by create_rag_pipeline
    rag_pipeline,          \* TRUE iff EcoAgent.rag_pipeline is not None
    tools,                 \* len(EcoAgent.tools)
    llm,                   \* EcoAgent.llm: "none", "openai", "simulated"
    agent,                 \* TRUE iff EcoAgent.agent is not None
    stats,                 \* EcoAgent.stats
    pc,                    \* position inside the public call in progress
    iterations,            \* the executor's iteration counter of the running query
    llm_calls,             \* model calls made so far by the running query
    obs,                   \* last observation folded back into the reasoning context
    flags,                 \* what happened during the running / last query
    entry,                 \* stats as they were when the last process_query was entered
    result,                \* what the last process_query returned
    report,                \* what the last get_stats returned
    last_call,             \* last public call: its name, how it ended, what it raised
    user_input,            \* the query of the running / last process_query
    event_log,             \* content of the file EcoAgentLogger.log_file, token by token
    writers,               \* the EcoAgentLogger instances at work: position, entry, pending tokens
    documents,             \* SimulatedVectorStore.documents
    indexed,               \* the documents the store was built from
    fcall,                 \* last call of a capability or of similarity_search: name and arguments
    fret,                  \* what that call returned
    session_state,         \* st.session_state of the browser session
    app_agent              \* TRUE iff the EcoAgentApp of the current script run has an agent

agentVars == <<openai_api_key, use_simulated_model, pipeline, rag_pipeline, tools, llm, agent>>
queryVars == <<iterations, llm_calls, obs, flags, entry, result, user_input>>
appVars == <<session_state, app_agent>>
otherVars == <<writers, documents, indexed, fcall, fret, appVars>>
vars == <<agentVars, stats, pc, queryVars, report, last_call, event_log, otherVars>>

\* ------------------------------------------------------------ capabilities

\* ProductoTools.productos_db (precio in cents)
productos_db ==
    [ PROD001 |-> [nombre |-> "Smartphone EcoTech Pro", categoria |-> "Electronicos",
                   precio |-> 29999, garantia_dias |-> 30, elegible_devolucion |-> TRUE],
      PROD002 |-> [nombre |-> "Laptop EcoFriendly", categoria |-> "Computadoras",
                   precio |-> 89999, garantia_dias |-> 15, elegible_devolucion |-> TRUE],
      PROD003 |-> [nombre |-> "Auriculares Wireless", categoria |-> "Audio",
                   precio |-> 7999, garantia_dias |-> 14, elegible_devolucion |-> TRUE],
      PROD004 |-> [nombre |-> "Tablet EcoPad", categoria |-> "Tablets",
                   precio |-> 19999, garantia_dias |-> 7, elegible_devolucion |-> FALSE] ]

\* ProductoTools.clientes_db (its keys)
clientes_db == {"CLI001", "CLI002", "CLI003"}

\* the keys of categoria_politicas in consultar_politicas_devolucion
categoria_politicas == {"Electronicos", "Computadoras", "Audio", "Tablets"}

\* A purchase date string is <<year, month, day>> as written by the caller.
IsLeap(y) == (y % 4 = 0 /\ y % 100 # 0) \/ y % 400 = 0

DaysInMonth(y, m) ==
    IF m = 2 THEN (IF IsLeap(y) THEN 29 ELSE 28)
    ELSE IF m \in {4, 6, 9, 11} THEN 30 ELSE 31

\* datetime.strptime(fecha, "%Y-%m-%d") raises ValueError unless this holds
WellFormedDate(f) ==
    /\ f[1] \in 1..9999
    /\ f[2] \in 1..12
    /\ f[3] \in 1..DaysInMonth(f[1], f[2])

RECURSIVE DaysBeforeMonth(_, _)
DaysBeforeMonth(y, m) ==
    IF m = 1 THEN 0 ELSE DaysBeforeMonth(y, m - 1) + DaysInMonth(y, m - 1)

\* the proleptic Gregorian ordinal of a well-formed date
Ordinal(f) ==
    LET y == f[1] - 1
    IN  y * 365 + (y \div 4) - (y \div 100) + (y \div 400)
          + DaysBeforeMonth(f[1], f[2]) + f[3]

\* (datetime.now() - fecha_compra_obj).days, the clock reading `now` a date
DiasTranscurridos(f, now) == Ordinal(now) - Ordinal(f)

\* A capability's text: what it says (kind) and the identifiers it mentions.
Text(k, i) == [kind |-> k, ids |-> i]

\* a text that also states the days elapsed and the days allowed
TextDias(k, i, dias, garantia) ==
    [kind |-> k, ids |-> i, dias_transcurridos |-> dias, garantia_dias |-> garantia]

\* mutant: the last day of the period already counts as late
FueraDePlazo_Inclusive(dias_transcurridos, garantia_dias) ==
    dias_transcurridos >= garantia_dias

\* the test of the return period: dias_transcurridos > producto["garantia_dias"]
FueraDePlazo(dias_transcurridos, garantia_dias) == dias_transcurridos > garantia_dias

\* mutant: the date is parsed before the product is looked up
verificar_elegibilidad_producto_FechaPrimero(producto_id, fecha_compra, now) ==
    IF ~WellFormedDate(fecha_compra)
    THEN Text("error_formato_fecha", {})
    ELSE IF producto_id \notin DOMAIN productos_db
    THEN Text("error_producto_no_existe", {producto_id})
    ELSE IF ~productos_db[producto_id].elegible_devolucion
    THEN Text("no_elegible", {producto_id})
    ELSE LET dias_transcurridos == DiasTranscurridos(fecha_compra, now)
             garantia_dias == productos_db[producto_id].garantia_dias
         IN  IF dias_transcurridos > garantia_dias
             THEN TextDias("ya_no_elegible", {producto_id}, dias_transcurridos, garantia_dias)
             ELSE TextDias("es_elegible", {producto_id}, dias_transcurridos, garantia_dias)

verificar_elegibilidad_producto(producto_id, fecha_compra, now) ==
    IF producto_id \notin DOMAIN productos_db
    THEN Text("error_producto_no_existe", {producto_id})
    ELSE IF ~productos_db[producto_id].elegible_devolucion
    THEN Text("no_elegible", {producto_id})
    ELSE IF ~WellFormedDate(fecha_compra)
    THEN Text("error_formato_fecha", {})
    ELSE LET dias_transcurridos == DiasTranscurridos(fecha_compra, now)
             garantia_dias == productos_db[producto_id].garantia_dias
         IN  IF FueraDePlazo(dias_transcurridos, garantia_dias)
             THEN TextDias("ya_no_elegible", {producto_id}, dias_transcurridos, garantia_dias)
             ELSE TextDias("es_elegible", {producto_id}, dias_transcurridos, garantia_dias)

\* mutant: the label is made out without looking the identifiers up
generar_etiqueta_devolucion_Unchecked(producto_id, cliente_id) ==
    Text("etiqueta", {producto_id, cliente_id})

\* mutant: a label only for products flagged returnable
generar_etiqueta_devolucion_SoloElegibles(producto_id, cliente_id) ==
    IF producto_id \notin DOMAIN productos_db
    THEN Text("error_producto_no_existe", {producto_id})
    ELSE IF cliente_id \notin clientes_db
    THEN Text("error_cliente_no_existe", {cliente_id})
    ELSE IF ~productos_db[producto_id].elegible_devolucion
    THEN Text("no_elegible", {producto_id})
    ELSE Text("etiqueta", {producto_id, cliente_id})

generar_etiqueta_devolucion(producto_id, cliente_id) ==
    IF producto_id \notin DOMAIN productos_db
    THEN Text("error_producto_no_existe", {producto_id})
    ELSE IF cliente_id \notin clientes_db
    THEN Text("error_cliente_no_existe", {cliente_id})
    ELSE Text("etiqueta", {producto_id, cliente_id})

\* called with no argument (categoria = None) or with one
consultar_politicas_devolucion(args) ==
    IF args = <<>> \/ args[1] = ""
    THEN Text("politicas_generales", {})
    ELSE IF args[1] \in categoria_politicas
    THEN Text("politicas_categoria", {})
    ELSE Text("categoria_no_encontrada", {args[1]})

\* the texts with which a capability reports an invalid argument
InvalidArgumentKinds ==
    {"error_producto_no_existe", "error_cliente_no_existe", "error_formato_fecha"}

\* ------------------------------------------------------- retrieval pipeline

\* EcoRAGPipeline.__init__: the pipeline chooses its own strategy from the key
NewPipeline(key) ==
    [ use_simulated_model |-> ~key,
      embeddings  |-> FALSE,
      vectorstore |-> "none",
      retriever   |-> "none",
      qa_chain    |-> "none" ]

\* SimulatedQAChain.__init__ looks _create_simulated_llm up on the chain object
\* itself, which has no such attribute: building the chain raises.
SimulatedQAChainRaises == TRUE

\* EcoRAGPipeline.query: what the caller receives, given what the chain did
\* ("returns" or "raises"); there is no second search after a failure.
query(p, chain_outcome) ==
    IF p.qa_chain = "none"
    THEN Text("rag_no_disponible", {})
    ELSE IF chain_outcome = "raises"
    THEN Text("error_al_procesar_la_consulta", {})
    ELSE Text("rag_answer", {})

\* rag_query (create_tools): relays query()'s "result"; its own handler turns an
\* AttributeError (no pipeline, or a result without .get) into a text as well
rag_query(has_pipeline, p, chain_outcome) ==
    IF ~has_pipeline \/ (p.qa_chain # "none" /\ chain_outcome = "returns_text")
    THEN Text("error_en_consulta_rag", {})
    ELSE query(p, chain_outcome)

\* what one call of the QA chain can do
ChainOutcomes == {"returns", "returns_text", "raises"}

\* ------------------------------------------------------------ orchestrator

tools_used_empty == << >>

\* the stats dict of __init__ and reset_stats
ZeroStats ==
    [ total_interactions |-> 0, tools_used |-> tools_used_empty,
      successful_interactions |-> 0, errors |-> 0 ]

NoText == Text("none", {})

NoFlags ==
    [ response |-> "none",      \* the text agent.run returned
      stop |-> "none",          \* how agent.run ended: finished, max_iterations, exception
      exc |-> "none",           \* the exception agent.run raised
      invalid_arg |-> FALSE ]   \* a capability answered with an invalid-argument text

NoResult == [agent_status |-> "none"]

NoReport == [model_type |-> "none"]

\* ---------------------------------------------------------------- event log

\* EcoAgentLogger.on_agent_action: the entry it builds (timestamp and reasoning
\* text, two more strings, left out)
on_agent_action(tool, tool_input) ==
    [type |-> "agent_action", tool |-> tool, tool_input |-> tool_input]

\* EcoAgentLogger.on_agent_finish: the entry it builds
on_agent_finish(output) == [type |-> "agent_finish", output |-> output]

\* json.dumps(log_entry, ensure_ascii=False): the object's text, in two parts,
\* the opening brace with the fields and the closing brace
json_dumps(log_entry) == << [tok |-> "{", fields |-> log_entry], [tok |-> "}"] >>

Newline == [tok |-> "\n"]

\* what f.write is given: json.dumps(log_entry) + "\n"
Line(log_entry) == json_dumps(log_entry) \o <<Newline>>

\* what json.loads raises on a text that is not one JSON value
JSONDecodeError == [type |-> "JSONDecodeError"]

\* json.loads of one line of the file, the newline taken off
json_loads(line) ==
    IF Len(line) = 2 /\ line[1].tok = "{" /\ line[2].tok = "}"
    THEN line[1].fields
    ELSE JSONDecodeError

\* EcoAgentLogger._write_log by the only logger at work: the line is appended whole
_write_log(file, log_entry) == file \o Line(log_entry)

\* the callback handlers create_agent gives initialize_agent, and process_query
\* gives agent.run: none; the EcoAgentLogger of __init__ stays in self.logger
Callbacks == {}

\* the executor tells its callback handlers of an action or of the finish
Notify(file, log_entry) ==
    IF "EcoAgentLogger" \in Callbacks THEN _write_log(file, log_entry) ELSE file

\* no capability or search was called, no logger is at work, no store was built
NoCall == [op |-> "none"]

\* no browser session: the keys initialize_session_state would set, and no app
NoSession ==
    [ agent_initialized |-> FALSE, openai_api_key |-> "",
      stats |-> [total_queries |-> 0, successful_queries |-> 0, errors |-> 0],
      chat_history |-> 0 ]

NoApp ==
    /\ session_state = NoSession
    /\ app_agent = FALSE

NoOtherState ==
    /\ writers = <<>>
    /\ documents = <<>>
    /\ indexed = <<>>
    /\ fcall = NoCall
    /\ fret = NoText
    /\ NoApp

Call(name, outcome, exc) == [name |-> name, outcome |-> outcome, exc |-> exc]

Queries == {"devolver PROD999", "politicas"}

\* EcoAgent.__init__: the state of the orchestrator after construction
EcoAgent_init ==
    /\ openai_api_key \in BOOLEAN
    /\ use_simulated_model = ~openai_api_key
    /\ pipeline = NewPipeline(FALSE)
    /\ rag_pipeline = FALSE
    /\ tools = 0
    /\ llm = "none"
    /\ agent = FALSE
    /\ stats = ZeroStats
    /\ pc = "idle"
    /\ iterations = 0
    /\ llm_calls = 0
    /\ obs = NoText
    /\ flags = NoFlags
    /\ entry = ZeroStats
    /\ result = NoResult
    /\ report = NoReport
    /\ last_call = Call("__init__", "returned", "none")
    /\ user_input = ""

Init ==
    /\ EcoAgent_init
    /\ event_log = <<>>
    /\ NoOtherState

\* The exception leaves initialize_agent through the re-raising handlers of
\* create_qa_chain's caller chain / create_agent: the call ends, raised.
InitRaises(exc) ==
    /\ pc' = "idle"
    /\ last_call' = Call("initialize_agent", "raised", exc)

\* initialize_agent -> initialize_rag_pipeline -> create_rag_pipeline: a new pipeline
initialize_agent ==
    /\ pc = "idle"
    /\ ~agent
    /\ pipeline' = NewPipeline(openai_api_key)
    /\ pc' = "initialize_embeddings"
    /\ last_call' = Call("initialize_agent", "running", "none")
    /\ report' = NoReport
    /\ UNCHANGED <<openai_api_key, use_simulated_model, rag_pipeline, tools, llm, agent,
                   stats, queryVars>>
    /\ UNCHANGED <<event_log, otherVars>>

\* EcoRAGPipeline.initialize_embeddings: a failing constructor switches the
\* pipeline to the simulated strategy
initialize_embeddings ==
    /\ pc = "initialize_embeddings"
    /\ \E constructed \in BOOLEAN :
         pipeline' =
            IF pipeline.use_simulated_model THEN pipeline
            ELSE IF constructed THEN [pipeline EXCEPT !.embeddings = TRUE]
            ELSE [pipeline EXCEPT !.use_simulated_model = TRUE]
    /\ pc' = "create_vectorstore"
    /\ UNCHANGED <<openai_api_key, use_simulated_model, rag_pipeline, tools, llm, agent,
                   stats, queryVars, report, last_call>>
    /\ UNCHANGED <<event_log, otherVars>>

\* EcoRAGPipeline.create_vectorstore: the real index, or the simulated one when
\* simulated, without embeddings, or when building the index raises
create_vectorstore ==
    /\ pc = "create_vectorstore"
    /\ \E built \in BOOLEAN :
         pipeline' = [pipeline EXCEPT !.vectorstore =
            IF ~pipeline.use_simulated_model /\ pipeline.embeddings /\ built
            THEN "faiss" ELSE "simulated"]
    /\ pc' = "create_retriever"
    /\ UNCHANGED <<openai_api_key, use_simulated_model, rag_pipeline, tools, llm, agent,
                   stats, queryVars, report, last_call>>
    /\ UNCHANGED <<event_log, otherVars>>

\* EcoRAGPipeline.create_retriever
create_retriever ==
    /\ pc = "create_retriever"
    /\ pipeline' = [pipeline EXCEPT !.retriever =
            IF pipeline.vectorstore = "none" THEN "none" ELSE pipeline.vectorstore]
    /\ pc' = "create_qa_chain"
    /\ UNCHANGED <<openai_api_key, use_simulated_model, rag_pipeline, tools, llm, agent,
                   stats, queryVars, report, last_call>>
    /\ UNCHANGED <<event_log, otherVars>>

\* EcoRAGPipeline.create_qa_chain, then the return into initialize_rag_pipeline.
\* chat_ok: ChatOpenAI(...) returns; chain_ok: RetrievalQA.from_chain_type returns.
\* The handler's fallback is _create_simulated_qa_chain().
create_qa_chain ==
    /\ pc = "create_qa_chain"
    /\ \E chat_ok \in BOOLEAN, chain_ok \in BOOLEAN :
         LET real == ~pipeline.use_simulated_model /\ openai_api_key
             failed == (real /\ ~chat_ok) \/ (pipeline.retriever # "none" /\ ~chain_ok)
         IN  IF failed /\ SimulatedQAChainRaises
             THEN /\ InitRaises("AttributeError")
                  /\ UNCHANGED <<pipeline, rag_pipeline>>
             ELSE /\ pipeline' = [pipeline EXCEPT !.qa_chain =
                        IF failed THEN "simulated"
                        ELSE IF pipeline.retriever # "none" THEN "retrieval_qa" ELSE "none"]
                  /\ rag_pipeline' = TRUE
                  /\ pc' = "create_tools"
                  /\ UNCHANGED last_call
    /\ UNCHANGED <<openai_api_key, use_simulated_model, tools, llm, agent,
                   stats, queryVars, report>>
    /\ UNCHANGED <<event_log, otherVars>>

\* EcoAgent.create_tools
create_tools ==
    /\ pc = "create_tools"
    /\ tools' = NumTools
    /\ pc' = "initialize_llm"
    /\ UNCHANGED <<openai_api_key, use_simulated_model, pipeline, rag_pipeline, llm, agent,
                   stats, queryVars, report, last_call>>
    /\ UNCHANGED <<event_log, otherVars>>

\* EcoAgent.initialize_llm's handler: the strategy after ChatOpenAI(...) raised
LLMFallback == [use_simulated_model |-> TRUE, llm |-> "simulated"]

\* EcoAgent.initialize_llm
initialize_llm ==
    /\ pc = "initialize_llm"
    /\ \E chat_ok \in BOOLEAN :
         IF ~use_simulated_model
         THEN IF chat_ok
              THEN llm' = "openai" /\ UNCHANGED use_simulated_model
              ELSE /\ use_simulated_model' = LLMFallback.use_simulated_model
                   /\ llm' = LLMFallback.llm
         ELSE llm' = "simulated" /\ UNCHANGED use_simulated_model
    /\ pc' = "create_agent"
    /\ UNCHANGED <<openai_api_key, pipeline, rag_pipeline, tools, agent,
                   stats, queryVars, report, last_call>>
    /\ UNCHANGED <<event_log, otherVars>>

\* EcoAgent.create_agent, then the return from initialize_agent: the framework
\* builds the executor or raises, and the handler re-raises
create_agent ==
    /\ pc = "create_agent"
    /\ \E built \in BOOLEAN :
         IF built
         THEN /\ agent' = TRUE
              /\ pc' = "idle"
              /\ last_call' = Call("initialize_agent", "returned", "none")
         ELSE /\ InitRaises("Exception")
              /\ UNCHANGED agent
    /\ UNCHANGED <<openai_api_key, use_simulated_model, pipeline, rag_pipeline, tools, llm,
                   stats, queryVars, report>>
    /\ UNCHANGED <<event_log, otherVars>>

\* -------------------------------------------------------------- agent loop

\* the names create_tools registers
ToolNames ==
    { "Verificar Elegibilidad de Producto", "Generar Etiqueta de Devolucion",
      "Consultar Politicas de Devolucion", "Consulta RAG" }

\* the clock of the run
Today == <<2024, 10, 21>>

PurchaseDates == { <<2024, 10, 1>>, <<2024, 9, 1>>, <<2024, 13, 45>> }

\* The argument lists a reasoning step may hand to a capability: the action input as
\* one string, or split into the parameters the tool description names.
ToolInputs(tool) ==
    IF tool = "Verificar Elegibilidad de Producto"
    THEN { <<"PROD001 2024-10-01">> }
           \cup { <<p, f>> : p \in {"PROD001", "PROD004", "PROD999"}, f \in PurchaseDates }
    ELSE IF tool = "Generar Etiqueta de Devolucion"
    THEN { <<"PROD001 CLI001">> }
           \cup { <<p, c>> : p \in {"PROD001", "PROD999"}, c \in {"CLI001", "CLI999"} }
    ELSE IF tool = "Consultar Politicas de Devolucion"
    THEN { << >>, <<"Electronicos">>, <<"Juguetes">> }
    ELSE { <<"procedimientos de calidad">> }

\* Calling func(*args): Python raises TypeError when the argument count does not
\* fit the function's signature, before the function's own try block is entered.
ArityFits(tool, args) ==
    IF tool = "Consultar Politicas de Devolucion" THEN Len(args) \in {0, 1}
    ELSE IF tool = "Consulta RAG" THEN Len(args) = 1
    ELSE Len(args) = 2

\* ActionDispatch: the registered function's text
Invoke(tool, args, chain_outcome) ==
    IF tool = "Verificar Elegibilidad de Producto"
    THEN verificar_elegibilidad_producto(args[1], args[2], Today)
    ELSE IF tool = "Generar Etiqueta de Devolucion"
    THEN generar_etiqueta_devolucion(args[1], args[2])
    ELSE IF tool = "Consultar Politicas de Devolucion"
    THEN consultar_politicas_devolucion(args)
    ELSE rag_query(rag_pipeline, pipeline, chain_outcome)

\* mutant: the loop condition off by one
ShouldContinue_OffByOne(i) == i <= AGENT_MAX_ITERATIONS

\* the executor's loop condition (max_iterations = 5)
ShouldContinue(i) == i < AGENT_MAX_ITERATIONS

\* what the simulated model's canned sentences parse to: they hold neither an
\* "Action:" nor a "Final Answer:", so every one of them is a parsing error
SimulatedLLMParses == FALSE

\* mutant: run is called on the agent without looking whether there is one
ChecksAgent_Not == FALSE

\* process_query tests self.agent before it calls run
ChecksAgent == TRUE

\* process_query up to the call of agent.run
process_query ==
    /\ pc = "idle"
    /\ stats.total_interactions < MaxInteractions
    /\ \E q \in Queries : user_input' = q
    /\ entry' = stats
    /\ stats' = [stats EXCEPT !.total_interactions = @ + 1]
    /\ iterations' = 0
    /\ llm_calls' = 0
    /\ obs' = NoText
    /\ result' = NoResult
    /\ last_call' = Call("process_query", "running", "none")
    /\ IF agent
       THEN pc' = "agent_run" /\ flags' = NoFlags
       ELSE IF ChecksAgent
       THEN /\ pc' = "succeed"
            /\ flags' = [NoFlags EXCEPT !.response = "agente_no_disponible"]
       ELSE /\ pc' = "except"
            /\ flags' = [NoFlags EXCEPT !.stop = "exception", !.exc = "AttributeError"]
    /\ report' = NoReport
    /\ UNCHANGED agentVars
    /\ UNCHANGED <<event_log, otherVars>>

\* agent.run raises: control passes to process_query's handler
RunRaises(exc) ==
    /\ pc' = "except"
    /\ flags' = [flags EXCEPT !.stop = "exception", !.exc = exc]

\* a reasoning step that emits the final answer
Plan_Finish ==
    /\ pc = "agent_run"
    /\ ShouldContinue(iterations)
    /\ llm = "openai" \/ SimulatedLLMParses
    /\ llm_calls' = llm_calls + 1
    /\ flags' = [flags EXCEPT !.response = "final_answer", !.stop = "finished"]
    /\ pc' = "succeed"
    /\ event_log' = Notify(event_log, on_agent_finish("final_answer"))
    /\ UNCHANGED <<agentVars, stats, iterations, obs, entry, result, user_input,
                   report, last_call>>
    /\ UNCHANGED otherVars

\* mutant: each dispatch is counted under the capability's name
ToolUsed_Counted(s, tool) ==
    [s EXCEPT !.tools_used =
        [t \in (DOMAIN @) \cup {tool} |-> IF t \in DOMAIN @ THEN @[t] + 1 ELSE 1]]

\* self.stats after the executor dispatched a capability: as before, since
\* nothing of process_query, the tool functions or the executor's set-up
\* writes to stats["tools_used"]
ToolUsed(s, tool) == s

\* a reasoning step that selects a capability, and its dispatch
Plan_Action ==
    /\ pc = "agent_run"
    /\ ShouldContinue(iterations)
    /\ llm = "openai" \/ SimulatedLLMParses
    /\ llm_calls' = llm_calls + 1
    /\ \E tool \in ToolNames : \E args \in ToolInputs(tool) : \E co \in ChainOutcomes :
         /\ event_log' = Notify(event_log, on_agent_action(tool, args))
         /\ IF ~ArityFits(tool, args)
            THEN /\ RunRaises("TypeError")
                 /\ UNCHANGED <<iterations, obs>>
            ELSE LET text == Invoke(tool, args, co)
                     bad == text.kind \in InvalidArgumentKinds
                 IN  /\ obs' = text
                     /\ iterations' = iterations + 1
                     /\ flags' = [flags EXCEPT !.invalid_arg = @ \/ bad]
                     /\ pc' = "agent_run"
         /\ stats' = ToolUsed(stats, tool)
    /\ UNCHANGED <<agentVars, entry, result, user_input, report, last_call>>
    /\ UNCHANGED otherVars

\* mutant: the executor's own default, under which a parsing error is raised
HandleParsingErrors_Off == FALSE

\* handle_parsing_errors, as create_agent sets it
HandleParsingErrors == TRUE

\* a reasoning step whose output parses to nothing: with handle_parsing_errors
\* the error is fed back as the observation of an "_Exception" action and the
\* step counts as an iteration; without it the parser's exception leaves the run
Plan_ParsingError ==
    /\ pc = "agent_run"
    /\ ShouldContinue(iterations)
    /\ llm_calls' = llm_calls + 1
    /\ IF HandleParsingErrors
       THEN /\ obs' = Text("invalid_or_incomplete_response", {})
            /\ iterations' = iterations + 1
            /\ event_log' = Notify(event_log, on_agent_action("_Exception", <<>>))
            /\ UNCHANGED <<pc, flags>>
       ELSE /\ RunRaises("OutputParserException")
            /\ UNCHANGED <<iterations, obs, event_log>>
    /\ UNCHANGED <<agentVars, stats, entry, result, user_input, report, last_call>>
    /\ UNCHANGED otherVars

\* a reasoning step that names a capability that is not registered
Plan_InvalidTool ==
    /\ pc = "agent_run"
    /\ ShouldContinue(iterations)
    /\ llm = "openai" \/ SimulatedLLMParses
    /\ llm_calls' = llm_calls + 1
    /\ obs' = Text("invalid_tool", {})
    /\ iterations' = iterations + 1
    /\ event_log' = Notify(event_log, on_agent_action("invalid_tool", <<>>))
    /\ UNCHANGED <<agentVars, stats, pc, flags, entry, result, user_input, report, last_call>>
    /\ UNCHANGED otherVars

\* the model call of a reasoning step fails (transport, authentication)
Plan_Raises ==
    /\ pc = "agent_run"
    /\ ShouldContinue(iterations)
    /\ llm = "openai"
    /\ llm_calls' = llm_calls + 1
    /\ RunRaises("BackendError")
    /\ UNCHANGED <<agentVars, stats, iterations, obs, entry, result, user_input,
                   report, last_call>>
    /\ UNCHANGED <<event_log, otherVars>>

\* mutant: an early stopping method the executor does not know, which it rejects
EarlyStopping_Unknown == "abort"

\* how the executor ends a run that used up its iterations
\* (early_stopping_method = "generate": one final model call for the answer)
EarlyStopping == "generate"

\* the loop condition fails: the stopped response
Stopped ==
    /\ pc = "agent_run"
    /\ ~ShouldContinue(iterations)
    /\ IF EarlyStopping = "generate"
       THEN /\ llm_calls' = llm_calls + 1
            /\ \E answered \in BOOLEAN :
                 IF answered
                 THEN /\ flags' = [flags EXCEPT !.response = "generated_answer",
                                                !.stop = "max_iterations"]
                      /\ pc' = "succeed"
                      /\ event_log' = Notify(event_log, on_agent_finish("generated_answer"))
                 ELSE /\ RunRaises("BackendError")
                      /\ UNCHANGED event_log
       ELSE IF EarlyStopping = "force"
       THEN /\ llm_calls' = llm_calls
            /\ flags' = [flags EXCEPT !.response = "agent_stopped",
                                      !.stop = "max_iterations"]
            /\ pc' = "succeed"
            /\ event_log' = Notify(event_log, on_agent_finish("agent_stopped"))
       ELSE /\ llm_calls' = llm_calls
            /\ RunRaises("ValueError")
            /\ UNCHANGED event_log
    /\ UNCHANGED <<agentVars, stats, iterations, obs, entry, result, user_input,
                   report, last_call>>
    /\ UNCHANGED otherVars

\* mutant: the handler forgets to count the failure
CountError_Skip(s) == s

\* process_query's handler counts the failure
CountError(s) == [s EXCEPT !.errors = @ + 1]

\* mutant: the success path increments the wrong counter
CountSuccess_Total(s) == [s EXCEPT !.total_interactions = @ + 1]

\* process_query counts the success
CountSuccess(s) == [s EXCEPT !.successful_interactions = @ + 1]

\* the dict of the success path
SuccessResult(s) ==
    [ response |-> flags.response, timestamp |-> "now", user_input |-> user_input,
      agent_status |-> "success", tools_available |-> tools, stats |-> s ]

\* the dict of the handler
ErrorResult(s) ==
    [ response |-> "error_al_procesar", timestamp |-> "now", user_input |-> user_input,
      agent_status |-> "error", error |-> flags.exc, stats |-> s ]

\* mutant: the handler re-raises, as the handlers of the initialisation do
HandlerOutcome_Reraise == "raised"

\* how a process_query that caught an exception ends: the handler returns
HandlerOutcome == "returned"

\* the locals of agent.run do not outlive the call
RunEnds ==
    /\ iterations' = 0
    /\ llm_calls' = 0
    /\ obs' = NoText
    /\ flags' = NoFlags

\* process_query after agent.run returned (or without an agent)
process_query_success ==
    /\ pc = "succeed"
    /\ stats' = CountSuccess(stats)
    /\ result' = SuccessResult(stats')
    /\ pc' = "idle"
    /\ last_call' = Call("process_query", "returned", "none")
    /\ RunEnds
    /\ UNCHANGED <<agentVars, entry, user_input, report>>
    /\ UNCHANGED <<event_log, otherVars>>

\* process_query's except branch
process_query_except ==
    /\ pc = "except"
    /\ stats' = CountError(stats)
    /\ result' = IF HandlerOutcome = "returned" THEN ErrorResult(stats') ELSE NoResult
    /\ pc' = "idle"
    /\ last_call' = Call("process_query", HandlerOutcome,
                         IF HandlerOutcome = "returned" THEN "none" ELSE flags.exc)
    /\ RunEnds
    /\ UNCHANGED <<agentVars, entry, user_input, report>>
    /\ UNCHANGED <<event_log, otherVars>>

\* mutant: model_type derived from the credential, not from the strategy in use
ModelType_FromKey(simulated) == IF openai_api_key THEN "openai" ELSE "simulated"

\* get_stats' model_type
ModelType(simulated) == IF simulated THEN "simulated" ELSE "openai"

\* EcoAgent.get_stats (error_rate left as its two operands)
get_stats ==
    /\ pc = "idle"
    /\ report' =
         [ total_interactions |-> stats.total_interactions,
           successful_interactions |-> stats.successful_interactions,
           errors |-> stats.errors,
           tools_available |-> tools,
           rag_available |-> rag_pipeline,
           model_type |-> ModelType(use_simulated_model) ]
    /\ last_call' = Call("get_stats", "returned", "none")
    /\ UNCHANGED <<agentVars, stats, pc, queryVars>>
    /\ UNCHANGED <<event_log, otherVars>>

\* mutant: the reset forgets total_interactions
StatsAfterReset_KeepsTotal(s) ==
    [ZeroStats EXCEPT !.total_interactions = s.total_interactions]

\* the dict reset_stats assigns to self.stats
StatsAfterReset(s) == ZeroStats

\* EcoAgent.reset_stats
reset_stats ==
    /\ pc = "idle"
    /\ stats' = StatsAfterReset(stats)
    /\ last_call' = Call("reset_stats", "returned", "none")
    /\ report' = NoReport
    /\ UNCHANGED <<agentVars, pc, queryVars>>
    /\ UNCHANGED <<event_log, otherVars>>

Next ==
    \/ initialize_agent
    \/ initialize_embeddings
    \/ create_vectorstore
    \/ create_retriever
    \/ create_qa_chain
    \/ create_tools
    \/ initialize_llm
    \/ create_agent
    \/ process_query
    \/ Plan_Finish
    \/ Plan_Action
    \/ Plan_ParsingError
    \/ Plan_InvalidTool
    \/ Plan_Raises
    \/ Stopped
    \/ process_query_success
    \/ process_query_except
    \/ get_stats
    \/ reset_stats

Spec == Init /\ [][Next]_vars

\* ------------------------------------------------- the lexical search store

\* A string is the sequence of its characters.

\* str.lower, character by character
UpperCase ==
    <<"A", "B", "C", "D", "E", "F", "G", "H", "I", "J", "K", "L", "M", "N", "O", "P",
      "Q", "R", "S", "T", "U", "V", "W", "X", "Y", "Z", "Á", "É", "Í", "Ó", "Ú", "Ñ">>

LowerCase ==
    <<"a", "b", "c", "d", "e", "f", "g", "h", "i", "j", "k", "l", "m", "n", "o", "p",
      "q", "r", "s", "t", "u", "v", "w", "x", "y", "z", "á", "é", "í", "ó", "ú", "ñ">>

\* the lower-case letter of each upper-case letter
LowerOf ==
    [ c \in {UpperCase[i] : i \in DOMAIN UpperCase} |->
        LowerCase[CHOOSE i \in DOMAIN UpperCase : UpperCase[i] = c] ]

LowerChar(c) == IF c \in DOMAIN LowerOf THEN LowerOf[c] ELSE c

lower(str) == [i \in DOMAIN str |-> LowerChar(str[i])]

IsSpace(c) == c = " "

\* length of the run of characters other than whitespace that str begins with
RECURSIVE WordLen(_)
WordLen(str) ==
    IF str = <<>> \/ IsSpace(Head(str)) THEN 0 ELSE 1 + WordLen(Tail(str))

\* str.split(): the runs of characters between whitespace, none of them empty
RECURSIVE split(_)
split(str) ==
    IF str = <<>> THEN <<>>
    ELSE IF IsSpace(Head(str)) THEN split(Tail(str))
    ELSE LET n == WordLen(str)
         IN  <<SubSeq(str, 1, n)>> \o split(SubSeq(str, n + 1, Len(str)))

StartsWith(str, sub) == Len(sub) <= Len(str) /\ SubSeq(str, 1, Len(sub)) = sub

\* sub in str
RECURSIVE Contains(_, _)
Contains(str, sub) ==
    IF Len(str) < Len(sub) THEN FALSE
    ELSE StartsWith(str, sub) \/ Contains(Tail(str), sub)

\* mutant: a keyword counts once however often the content has it
count_Presence(str, sub) == IF Contains(str, sub) THEN 1 ELSE 0

\* str.count(sub): occurrences found from left to right, the search going on
\* after the end of each one
RECURSIVE count(_, _)
count(str, sub) ==
    IF Len(str) < Len(sub) THEN 0
    ELSE IF StartsWith(str, sub)
    THEN 1 + count(SubSeq(str, Len(sub) + 1, Len(str)), sub)
    ELSE count(Tail(str), sub)

\* the inner loop of similarity_search: the score of one document
RECURSIVE Score(_, _)
Score(content_lower, keywords) ==
    IF keywords = <<>> THEN 0
    ELSE (IF Contains(content_lower, Head(keywords))
          THEN count(content_lower, Head(keywords)) ELSE 0)
         + Score(content_lower, Tail(keywords))

\* the outer loop: scored_docs, the (score, doc) pairs of the documents that score
RECURSIVE ScoredDocs(_, _)
ScoredDocs(docs, query_lower) ==
    IF docs = <<>> THEN <<>>
    ELSE LET doc == docs[Len(docs)]
             score == Score(lower(doc.page_content), split(query_lower))
             before == ScoredDocs(SubSeq(docs, 1, Len(docs) - 1), query_lower)
         IN  IF score > 0 THEN Append(before, <<score, doc>>) ELSE before

\* mutant: a pair goes in front of the pairs of equal score
Insert_BeforeTies(sorted, pair) ==
    LET n == Cardinality({i \in DOMAIN sorted : sorted[i][1] > pair[1]})
    IN  SubSeq(sorted, 1, n) \o <<pair>> \o SubSeq(sorted, n + 1, Len(sorted))

\* one pair put into a list sorted by falling score, behind the pairs of equal score
Insert(sorted, pair) ==
    LET n == Cardinality({i \in DOMAIN sorted : sorted[i][1] >= pair[1]})
    IN  SubSeq(sorted, 1, n) \o <<pair>> \o SubSeq(sorted, n + 1, Len(sorted))

\* list.sort(key=lambda x: x[0], reverse=True): stable, so that pairs of equal
\* score keep the order they were appended in
RECURSIVE sort_reverse(_)
sort_reverse(pairs) ==
    IF pairs = <<>> THEN <<>>
    ELSE Insert(sort_reverse(SubSeq(pairs, 1, Len(pairs) - 1)), pairs[Len(pairs)])

\* mutant: no truncation
SliceTo_Everything(list, k) == list

\* list[:k]: the first k elements, all of them when there are fewer; a negative k
\* counts from the end, leaving the last -k elements out
SliceTo(list, k) ==
    LET n == Len(list)
        stop == IF k < 0 THEN (IF n + k < 0 THEN 0 ELSE n + k)
                ELSE (IF k > n THEN n ELSE k)
    IN  SubSeq(list, 1, stop)

\* SimulatedVectorStore.similarity_search
similarity_search(docs, q, k) ==
    LET scored_docs == sort_reverse(ScoredDocs(docs, lower(q)))
        top == SliceTo(scored_docs, k)
    IN  [i \in DOMAIN top |-> top[i][2]]

\* mutant: the store keeps only what the search found
StoreAfterSearch_KeepsFound(docs, found) == found

\* self.documents after a search: similarity_search assigns nothing to it and
\* sorts a list of its own
StoreAfterSearch(docs, found) == docs

Document(source, page_content) == [source |-> source, page_content |-> page_content]

\* documents a store may be built from
Documents ==
    { Document("d1", <<"a">>),
      Document("d2", <<"a", "A", "a">>),
      Document("d3", <<"a", "b", " ", "B">>),
      Document("d4", <<"B">>) }

\* documents per store
MaxDocs == 3

\* the stores: every list of up to MaxDocs different documents
Corpora ==
    { docs \in UNION { [1..n -> Documents] : n \in 0..MaxDocs } :
        \A i, j \in DOMAIN docs : i # j => docs[i] # docs[j] }

\* queries: one term, upper case, several terms, a term twice, whitespace at the
\* ends and in runs, a term that overlaps itself, no term, a term no document has
SearchQueries ==
    { <<"a">>, <<"A">>, <<"a", "a">>, <<"a", "b">>, <<"a", " ", "b">>,
      <<"a", " ", "a">>, <<" ", "B", " ", " ", "a", " ">>, << >>, <<" ">>,
      <<"A", "B", " ", "b">> }

\* values of k: negative, zero, up to as many as the largest store holds
Ks == (0 - 1)..MaxDocs

Call_similarity_search ==
    /\ \E q \in SearchQueries : \E k \in Ks :
         LET found == similarity_search(documents, q, k)
         IN  /\ fcall' = [op |-> "similarity_search", query |-> q, k |-> k]
             /\ fret' = found
             /\ documents' = StoreAfterSearch(documents, found)
    /\ UNCHANGED <<agentVars, stats, pc, queryVars, report, last_call, appVars, event_log,
                   writers, indexed>>

\* SimulatedVectorStore.__init__: the store holds the documents it was given
InitSearch ==
    /\ EcoAgent_init
    /\ ~openai_api_key
    /\ event_log = <<>>
    /\ writers = <<>>
    /\ documents \in Corpora
    /\ indexed = documents
    /\ fcall = NoCall
    /\ fret = <<>>
    /\ NoApp

NextSearch == Call_similarity_search

SpecSearch == InitSearch /\ [][NextSearch]_vars

\* --------------------------------------------------- the simulated models

\* the keywords the simulated models look for
devolucion == <<"d", "e", "v", "o", "l", "u", "c", "i", "ó", "n">>

devolver == <<"d", "e", "v", "o", "l", "v", "e", "r">>

politica == <<"p", "o", "l", "í", "t", "i", "c", "a">>

soporte == <<"s", "o", "p", "o", "r", "t", "e">>

ayuda == <<"a", "y", "u", "d", "a">>

\* one of the canned answers of a simulated model
Canned(model, category) == [model |-> model, category |-> category]

\* SimulatedLLM.__call__ of EcoRAGPipeline._create_simulated_llm
RAG_SimulatedLLM(prompt) ==
    LET prompt_lower == lower(prompt)
    IN  IF Contains(prompt_lower, devolucion) \/ Contains(prompt_lower, devolver)
        THEN Canned("rag", "devolucion")
        ELSE IF Contains(prompt_lower, politica)
        THEN Canned("rag", "politica")
        ELSE IF Contains(prompt_lower, soporte) \/ Contains(prompt_lower, ayuda)
        THEN Canned("rag", "soporte")
        ELSE Canned("rag", "generica")

\* SimulatedLLM.__call__ of EcoAgent._create_simulated_llm
Agent_SimulatedLLM(prompt) ==
    LET prompt_lower == lower(prompt)
    IN  IF Contains(prompt_lower, devolucion)
        THEN Canned("agent", "devolucion")
        ELSE IF Contains(prompt_lower, politica)
        THEN Canned("agent", "politica")
        ELSE IF Contains(prompt_lower, ayuda) \/ Contains(prompt_lower, soporte)
        THEN Canned("agent", "soporte")
        ELSE Canned("agent", "generica")

\* pieces of text a prompt may be made of
Fragments ==
    { <<"D", "e", "v", "o", "l", "u", "c", "i", "ó", "n", " ">>,
      <<"q", "u", "i", "e", "r", "o", " ", "D", "E", "V", "O", "L", "V", "E", "R">>,
      <<" ", "P", "O", "L", "Í", "T", "I", "C", "A">>,
      <<"s", "o", "p", "o", "r", "t", "e">>,
      <<"A", "y", "u", "d", "a">>,
      <<"h", "o", "l", "a", " ">>,
      <<"p", "o", "l", "í", "t", "i", "c", "a", " ", "d", "e", " ", "d", "e", "v", "o", "l", "u", "c", "i", "ó", "n">> }

\* pieces per prompt
MaxFragments == 2

RECURSIVE Join(_)
Join(pieces) == IF pieces = <<>> THEN <<>> ELSE Head(pieces) \o Join(Tail(pieces))

\* the prompts: up to MaxFragments pieces, one after the other
Prompts == { Join(pieces) : pieces \in UNION { [1..n -> Fragments] : n \in 0..MaxFragments } }

Call_RAG_SimulatedLLM ==
    /\ \E prompt \in Prompts :
         /\ fcall' = [op |-> "RAG_SimulatedLLM", args |-> <<prompt>>]
         /\ fret' = RAG_SimulatedLLM(prompt)
    /\ UNCHANGED <<agentVars, stats, pc, queryVars, report, last_call, appVars, event_log,
                   writers, documents, indexed>>

Call_Agent_SimulatedLLM ==
    /\ \E prompt \in Prompts :
         /\ fcall' = [op |-> "Agent_SimulatedLLM", args |-> <<prompt>>]
         /\ fret' = Agent_SimulatedLLM(prompt)
    /\ UNCHANGED <<agentVars, stats, pc, queryVars, report, last_call, appVars, event_log,
                   writers, documents, indexed>>

\* no orchestrator is at work: the simulated models are called directly
InitLLM == Init /\ ~openai_api_key

NextLLM ==
    \/ Call_RAG_SimulatedLLM
    \/ Call_Agent_SimulatedLLM

SpecLLM == InitLLM /\ [][NextLLM]_vars

\* ------------------------------------------------- the capabilities on their own

\* product and client identifiers a caller may give: the known ones and unknown ones
ProductoIds == DOMAIN productos_db \cup {"PROD999", ""}

ClienteIds == clientes_db \cup {"CLI999"}

\* purchase dates a caller may give, well formed or not, before and after the call
FechasCompra == { <<y, mo, d>> : y \in {2023, 2024}, mo \in {2, 10, 11, 13},
                                 d \in {1, 2, 16, 17, 29, 31} }

\* the days on which the call is made (datetime.now())
Hoy == { <<2024, 10, 31>>, <<2024, 11, 1>> }

Call_verificar_elegibilidad_producto ==
    /\ \E producto_id \in ProductoIds : \E fecha_compra \in FechasCompra : \E now \in Hoy :
         /\ fcall' = [op |-> "verificar_elegibilidad_producto",
                      args |-> <<producto_id, fecha_compra>>, now |-> now]
         /\ fret' = verificar_elegibilidad_producto(producto_id, fecha_compra, now)
    /\ UNCHANGED <<agentVars, stats, pc, queryVars, report, last_call, appVars, event_log,
                   writers, documents, indexed>>

Call_generar_etiqueta_devolucion ==
    /\ \E producto_id \in ProductoIds : \E cliente_id \in ClienteIds : \E now \in Hoy :
         /\ fcall' = [op |-> "generar_etiqueta_devolucion",
                      args |-> <<producto_id, cliente_id>>, now |-> now]
         /\ fret' = generar_etiqueta_devolucion(producto_id, cliente_id)
    /\ UNCHANGED <<agentVars, stats, pc, queryVars, report, last_call, appVars, event_log,
                   writers, documents, indexed>>

Call_consultar_politicas_devolucion ==
    /\ \E args \in { << >>, <<"">>, <<"Electronicos">>, <<"Juguetes">> } : \E now \in Hoy :
         /\ fcall' = [op |-> "consultar_politicas_devolucion", args |-> args, now |-> now]
         /\ fret' = consultar_politicas_devolucion(args)
    /\ UNCHANGED <<agentVars, stats, pc, queryVars, report, last_call, appVars, event_log,
                   writers, documents, indexed>>

\* no orchestrator is at work: the capabilities are called directly
InitTools == Init /\ ~openai_api_key

NextTools ==
    \/ Call_verificar_elegibilidad_producto
    \/ Call_generar_etiqueta_devolucion
    \/ Call_consultar_politicas_devolucion

SpecTools == InitTools /\ [][NextTools]_vars

\* ------------------------------------- several loggers appending to one file

\* entries one logger may write
MaxLogEntries == 2

\* the EcoAgentLogger instances, all on the default log_file
Loggers == {"logger1", "logger2"}

\* a logger between two callbacks
IdleLogger(n) == [pc |-> "idle", pending |-> <<>>, entries |-> n]

\* on_agent_action up to the call of open: the line to write is ready
Logger_on_agent_action(w) ==
    /\ writers[w].pc = "idle"
    /\ writers[w].entries < MaxLogEntries
    /\ writers' = [writers EXCEPT ![w] =
                     [pc |-> "open",
                      pending |-> Line(on_agent_action("Consulta RAG", <<"politicas">>)),
                      entries |-> @.entries + 1]]
    /\ UNCHANGED event_log
    /\ UNCHANGED <<agentVars, stats, pc, queryVars, report, last_call, appVars,
                   documents, indexed, fcall, fret>>

\* on_agent_finish up to the call of open
Logger_on_agent_finish(w) ==
    /\ writers[w].pc = "idle"
    /\ writers[w].entries < MaxLogEntries
    /\ writers' = [writers EXCEPT ![w] =
                     [pc |-> "open", pending |-> Line(on_agent_finish("final_answer")),
                      entries |-> @.entries + 1]]
    /\ UNCHANGED event_log
    /\ UNCHANGED <<agentVars, stats, pc, queryVars, report, last_call, appVars,
                   documents, indexed, fcall, fret>>

\* open(self.log_file, "a") returns: no lock is taken, on the file or in the process
Logger_open(w) ==
    /\ writers[w].pc = "open"
    /\ writers' = [writers EXCEPT ![w].pc = "write"]
    /\ UNCHANGED event_log
    /\ UNCHANGED <<agentVars, stats, pc, queryVars, report, last_call, appVars,
                   documents, indexed, fcall, fret>>

\* open raises: _write_log's handler reports the error and drops the entry
Logger_open_raises(w) ==
    /\ writers[w].pc = "open"
    /\ writers' = [writers EXCEPT ![w] = IdleLogger(@.entries)]
    /\ UNCHANGED event_log
    /\ UNCHANGED <<agentVars, stats, pc, queryVars, report, last_call, appVars,
                   documents, indexed, fcall, fret>>

\* the text reaches the file, at its end (append mode), in one write or, when the
\* system takes only a part of it, in several; after the last one the file is closed
Logger_write(w) ==
    /\ writers[w].pc = "write"
    /\ \E n \in 1..Len(writers[w].pending) :
         LET pending == writers[w].pending
             rest == SubSeq(pending, n + 1, Len(pending))
         IN  /\ event_log' = event_log \o SubSeq(pending, 1, n)
             /\ writers' = [writers EXCEPT ![w] =
                              IF rest = <<>> THEN IdleLogger(@.entries)
                              ELSE [@ EXCEPT !.pending = rest]]
    /\ UNCHANGED <<agentVars, stats, pc, queryVars, report, last_call, appVars,
                   documents, indexed, fcall, fret>>

\* no orchestrator is at work; every logger was constructed and waits for a callback
InitLog ==
    /\ EcoAgent_init
    /\ ~openai_api_key
    /\ event_log = <<>>
    /\ writers = [w \in Loggers |-> IdleLogger(0)]
    /\ documents = <<>>
    /\ indexed = <<>>
    /\ fcall = NoCall
    /\ fret = NoText
    /\ NoApp

NextLog ==
    \/ \E w \in Loggers : Logger_on_agent_action(w)
    \/ \E w \in Loggers : Logger_on_agent_finish(w)
    \/ \E w \in Loggers : Logger_open(w)
    \/ \E w \in Loggers : Logger_open_raises(w)
    \/ \E w \in Loggers : Logger_write(w)

SpecLog == InitLog /\ [][NextLog]_vars

\* ------------------------------------------------------- the Streamlit app

\* queries one browser session sends
MaxQueries == 3

\* what the agent's process_query may hand the app: the dict of its success path
\* or the dict of its handler
AgentResults == { SuccessResult(ZeroStats), ErrorResult(ZeroStats) }

\* EcoAgentApp.display_response: it reads these keys of the result whatever the
\* status is, and a missing key raises KeyError
display_response(res) ==
    IF {"response", "agent_status", "timestamp", "tools_available"} \subseteq DOMAIN res
    THEN "shown"
    ELSE "KeyError"

\* main(): a script run begins with a new EcoAgentApp, whose agent is None;
\* initialize_session_state keeps the keys the session already has
main ==
    /\ app_agent' = FALSE
    /\ UNCHANGED <<agentVars, stats, pc, queryVars, report, last_call, event_log,
                   writers, documents, indexed, fcall, fret, session_state>>

\* render_sidebar: the key typed differs from the stored one
App_render_sidebar ==
    /\ \E key \in {"", "sk-key"} :
         /\ key # session_state.openai_api_key
         /\ session_state' = [session_state EXCEPT !.openai_api_key = key,
                                                   !.agent_initialized = FALSE]
    /\ UNCHANGED <<agentVars, stats, pc, queryVars, report, last_call, event_log,
                   writers, documents, indexed, fcall, fret, app_agent>>

\* EcoAgentApp.initialize_agent: create_eco_agent returns an agent or raises
App_initialize_agent ==
    /\ ~session_state.agent_initialized
    /\ \E created \in BOOLEAN :
         IF created
         THEN /\ app_agent' = TRUE
              /\ session_state' = [session_state EXCEPT !.agent_initialized = TRUE]
         ELSE UNCHANGED <<app_agent, session_state>>
    /\ fcall' = [op |-> "App.initialize_agent"]
    /\ fret' = NoText
    /\ UNCHANGED <<agentVars, stats, pc, queryVars, report, last_call, event_log,
                   writers, documents, indexed>>

\* the button "Reinicializar EcoAgent": the flag is cleared and the script reruns
App_reinitialize ==
    /\ session_state.agent_initialized
    /\ session_state' = [session_state EXCEPT !.agent_initialized = FALSE]
    /\ app_agent' = FALSE
    /\ UNCHANGED <<agentVars, stats, pc, queryVars, report, last_call, event_log,
                   writers, documents, indexed, fcall, fret>>

\* the button "Limpiar Historial": the history is emptied and the script reruns
App_clear_history ==
    /\ session_state.chat_history > 0
    /\ session_state' = [session_state EXCEPT !.chat_history = 0]
    /\ app_agent' = FALSE
    /\ UNCHANGED <<agentVars, stats, pc, queryVars, report, last_call, event_log,
                   writers, documents, indexed, fcall, fret>>

\* EcoAgentApp.process_user_query
App_process_user_query ==
    /\ session_state.stats.total_queries < MaxQueries
    /\ fcall' = [op |-> "App.process_user_query"]
    /\ IF ~session_state.agent_initialized \/ ~app_agent
       THEN /\ fret' = Text("no_inicializado", {})
            /\ UNCHANGED session_state
       ELSE \E res \in AgentResults :
              LET counted == IF res.agent_status = "success"
                             THEN [session_state.stats EXCEPT
                                     !.total_queries = @ + 1, !.successful_queries = @ + 1]
                             ELSE [session_state.stats EXCEPT
                                     !.total_queries = @ + 1, !.errors = @ + 1]
                  shown == display_response(res)
              IN  /\ fret' = Text(shown, {res.agent_status})
                  /\ session_state' =
                       [session_state EXCEPT
                          !.chat_history = @ + 1,
                          !.stats = IF shown = "shown" THEN counted
                                    ELSE [counted EXCEPT !.errors = @ + 1]]
    /\ UNCHANGED <<agentVars, stats, pc, queryVars, report, last_call, event_log,
                   writers, documents, indexed, app_agent>>

\* the first script run of a browser session
InitApp ==
    /\ EcoAgent_init
    /\ ~openai_api_key
    /\ event_log = <<>>
    /\ writers = <<>>
    /\ documents = <<>>
    /\ indexed = <<>>
    /\ fcall = NoCall
    /\ fret = NoText
    /\ NoApp

NextApp ==
    \/ main
    \/ App_render_sidebar
    \/ App_initialize_agent
    \/ App_reinitialize
    \/ App_clear_history
    \/ App_process_user_query

SpecApp == InitApp /\ [][NextApp]_vars

\* ------------------------------------------------------------------ claims

\* a process_query call has returned and nothing was called since
Returned == pc = "idle" /\ last_call = Call("process_query", "returned", "none")

InProcessQuery == pc \in {"agent_run", "succeed", "except"}

\* C1: whenever no process_query is in progress (every call made so far has
\* returned), total_interactions = successful_interactions + errors.
C1_TotalIsSuccessesPlusErrors ==
    ~InProcessQuery =>
        stats.total_interactions = stats.successful_interactions + stats.errors

\* C1 witness: two calls have returned, one on each path
C1_Witness ==
    /\ Returned
    /\ stats.successful_interactions = 1
    /\ stats.errors = 1

\* C2: a returned process_query has raised total_interactions by exactly 1 and
\* exactly one of successful_interactions / errors by exactly 1, the one that
\* matches the agent_status it returned.
C2_OneCounterPerCall ==
    Returned =>
        /\ stats.total_interactions = entry.total_interactions + 1
        /\ \/ /\ result.agent_status = "success"
              /\ stats.successful_interactions = entry.successful_interactions + 1
              /\ stats.errors = entry.errors
           \/ /\ result.agent_status = "error"
              /\ stats.successful_interactions = entry.successful_interactions
              /\ stats.errors = entry.errors + 1

\* C2 witness: a call that ended in "error", made after an earlier call
C2_Witness ==
    /\ Returned
    /\ result.agent_status = "error"
    /\ entry.total_interactions >= 1

C5_ResultFields ==
    Returned =>
        /\ {"response", "agent_status", "tools_available", "stats"} \subseteq DOMAIN result
        /\ result.agent_status \in {"success", "error"}

\* C6: whatever backend is missing or fails to construct, the initialisation
\* behind create_eco_agent ends returned, with an agent (a failure of the agent
\* framework to build the executor itself set aside).
C6_InitRecoversLocally ==
    (pc = "idle" /\ last_call.name = "initialize_agent" /\ last_call.exc # "Exception") =>
        /\ last_call.outcome = "returned"
        /\ agent

\* C7: no retrieval query hands an error text back to its caller: a failed
\* backend call is answered from the lexical fallback.
C7_RetrievalFallsBack ==
    obs.kind # "error_al_procesar_la_consulta"

\* C8 as stated: use_simulated_model never changes after __init__.
C8_StrategyNeverChanges ==
    [][ use_simulated_model' = use_simulated_model ]_vars

\* C8 amended: the strategy is chosen in __init__ from the credential; afterwards it
\* changes only inside initialize_llm, only from real to simulated; no credential
\* means simulated throughout; get_stats reports the strategy in use.
C8_StrategyChangesOnlyInInitializeLLM ==
    /\ [](~openai_api_key => use_simulated_model)
    /\ [][ use_simulated_model' # use_simulated_model =>
             (pc = "initialize_llm" /\ ~use_simulated_model /\ use_simulated_model') ]_vars
    /\ [](report # NoReport =>
             report.model_type = IF use_simulated_model THEN "simulated" ELSE "openai")

\* C8 witness: a credential is configured, the strategy has become simulated, and
\* get_stats has reported it
C8_Witness ==
    /\ openai_api_key
    /\ use_simulated_model
    /\ report # NoReport
    /\ stats.total_interactions >= 1

\* C9 as stated: a run stopped by the iteration cap has made exactly 5 model calls.
C9_NoCallAfterTheFifth ==
    /\ iterations <= AGENT_MAX_ITERATIONS
    /\ flags.stop = "max_iterations" => llm_calls = AGENT_MAX_ITERATIONS

\* C9 amended: the loop makes at most 5 iterations, one model call each; a run that
\* never finishes leaves the loop after exactly 5 and then makes one more model
\* call, which generates the answer: 6 model calls.
C9_FiveIterationsThenOneGeneration ==
    /\ iterations <= AGENT_MAX_ITERATIONS
    /\ pc = "agent_run" => llm_calls = iterations
    /\ llm_calls <= AGENT_MAX_ITERATIONS + 1
    /\ flags.stop = "max_iterations" =>
          (iterations = AGENT_MAX_ITERATIONS /\ llm_calls = AGENT_MAX_ITERATIONS + 1)

\* C9 witness: the simulated model, which never emits a final answer, ran into the cap
C9_Witness ==
    /\ llm = "simulated"
    /\ pc = "succeed"
    /\ flags.stop = "max_iterations"

C11_ParsingErrorIsRetriedWithinBudget ==
    /\ [](flags.exc # "OutputParserException" /\ iterations <= AGENT_MAX_ITERATIONS)
    /\ [][ (/\ pc = "agent_run"
            /\ pc' = "agent_run"
            /\ llm_calls' = llm_calls + 1
            /\ obs'.kind = "invalid_or_incomplete_response")
           => (/\ iterations' = iterations + 1
               /\ iterations' <= AGENT_MAX_ITERATIONS
               /\ flags' = flags) ]_vars

\* a run whose every step failed to parse, stopped by the cap and answered
C11_Witness ==
    /\ pc = "succeed"
    /\ obs.kind = "invalid_or_incomplete_response"
    /\ iterations = AGENT_MAX_ITERATIONS
    /\ llm = "simulated"
    /\ flags.stop = "max_iterations"

\* number of complete lines of the file
LineCount(file) == Cardinality({i \in DOMAIN file : file[i] = Newline})

\* C12: every step of a run that invokes a capability, and every step that
\* gives the final answer, appends exactly one line to the event log
C12_EveryEventIsLogged ==
    [][ (pc = "agent_run" /\ (iterations' = iterations + 1 \/ pc' = "succeed"))
        => LineCount(event_log') = LineCount(event_log) + 1 ]_vars

\* C14: no invocation of a registered capability by the executor raises
C14_CapabilitiesNeverRaise == flags.exc # "TypeError"

\* the texts with which a capability reports what was asked for
SuccessKinds == {"es_elegible", "etiqueta", "politicas_generales", "politicas_categoria"}

\* C15: verificar_elegibilidad_producto and generar_etiqueta_devolucion, given a
\* product id that is not in productos_db, return the error text that names that
\* id; generar_etiqueta_devolucion, given a known product and a client id that is
\* not in clientes_db, returns the error text that names that client id; these
\* texts are never the text of a success, and a call with known ids never
\* returns one of them
C15_UnknownIdsGiveErrorText ==
    /\ fcall.op \in {"verificar_elegibilidad_producto", "generar_etiqueta_devolucion"}
         => /\ fcall.args[1] \notin DOMAIN productos_db
                 => /\ fret.kind = "error_producto_no_existe"
                    /\ fcall.args[1] \in fret.ids
                    /\ fret.kind \notin SuccessKinds
            /\ fcall.args[1] \in DOMAIN productos_db
                 => fret.kind # "error_producto_no_existe"
    /\ fcall.op = "generar_etiqueta_devolucion" /\ fcall.args[1] \in DOMAIN productos_db
         => IF fcall.args[2] \notin clientes_db
            THEN /\ fret.kind = "error_cliente_no_existe"
                 /\ fcall.args[2] \in fret.ids
                 /\ fret.kind \notin SuccessKinds
            ELSE fret.kind = "etiqueta"

\* a label asked for a known product and an unknown client
C15_Witness ==
    /\ fcall.op = "generar_etiqueta_devolucion"
    /\ fcall.args = <<"PROD001", "CLI999">>
    /\ fret.kind = "error_cliente_no_existe"

\* C16: for a product that exists and can be returned and a well-formed date,
\* verificar_elegibilidad_producto says the product is no longer eligible, with
\* the days elapsed and the days allowed, exactly when the whole days elapsed
\* exceed garantia_dias; otherwise, a date in the future included, it says the
\* product is eligible
C16_EligibleWithinGarantiaDias ==
    ( /\ fcall.op = "verificar_elegibilidad_producto"
      /\ fcall.args[1] \in DOMAIN productos_db
      /\ productos_db[fcall.args[1]].elegible_devolucion
      /\ WellFormedDate(fcall.args[2]) )
    => LET dias == Ordinal(fcall.now) - Ordinal(fcall.args[2])
           garantia == productos_db[fcall.args[1]].garantia_dias
       IN  IF dias > garantia
           THEN /\ fret.kind = "ya_no_elegible"
                /\ fret.dias_transcurridos = dias
                /\ fret.garantia_dias = garantia
           ELSE fret.kind = "es_elegible"

\* the last day of the period: PROD001 bought 30 days before the call
C16_Witness ==
    /\ fcall.op = "verificar_elegibilidad_producto"
    /\ fcall.args = << "PROD001", <<2024, 10, 1>> >>
    /\ fcall.now = <<2024, 10, 31>>
    /\ fret.kind = "es_elegible"
    /\ fret.dias_transcurridos = 30

\* position of the newline that ends the line before the one ending at i (0: none)
LineStart(file, i) ==
    LET before == {j \in 1..(i - 1) : file[j] = Newline}
    IN  IF before = {} THEN 0 ELSE CHOOSE j \in before : \A h \in before : h <= j

\* the complete lines of the file, each without its newline
CompleteLines(file) ==
    { SubSeq(file, LineStart(file, i) + 1, i - 1) : i \in {j \in DOMAIN file : file[j] = Newline} }

\* C13: with several loggers appending to the same file, every complete line of
\* the file is one whole JSON object written by one logger: no line holds parts
\* of two entries
C13_AppendsAreMutuallyExclusive ==
    \A line \in CompleteLines(event_log) : json_loads(line) # JSONDecodeError

\* The ranking as the specification words it, stated without loops.

\* the places of a string where a term begins
TermStarts(str) ==
    {i \in DOMAIN str : ~IsSpace(str[i]) /\ (i = 1 \/ IsSpace(str[i - 1]))}

\* the term that begins at place i: up to the next whitespace or the end
TermAt(str, i) ==
    LET last == CHOOSE j \in i..Len(str) :
                  /\ \A h \in i..j : ~IsSpace(str[h])
                  /\ j = Len(str) \/ IsSpace(str[j + 1])
    IN  SubSeq(str, i, last)

\* the places of a string where a term occurs
MatchPlaces(str, term) ==
    {i \in 1..(Len(str) - Len(term) + 1) : SubSeq(str, i, i + Len(term) - 1) = term}

\* occurrences of a term in a string: the most places where it occurs that can
\* be taken together without two of them overlapping
Occurrences(str, term) ==
    LET apart == {P \in SUBSET MatchPlaces(str, term) :
                    \A a, b \in P : a < b => b - a >= Len(term)}
    IN  CHOOSE n \in 0..Len(str) :
          /\ \E P \in apart : Cardinality(P) = n
          /\ \A P \in apart : Cardinality(P) <= n

\* sum, over the terms beginning at the places S of the query, of their occurrences
RECURSIVE RefScoreOver(_, _, _)
RefScoreOver(content, q, S) ==
    IF S = {} THEN 0
    ELSE LET i == CHOOSE x \in S : TRUE
         IN  Occurrences(content, TermAt(q, i)) + RefScoreOver(content, q, S \ {i})

RefScore(doc, q) ==
    RefScoreOver(lower(doc.page_content), lower(q), TermStarts(lower(q)))

\* the documents of a store that score
RefMatches(docs, q) == {i \in DOMAIN docs : RefScore(docs[i], q) > 0}

\* the scoring documents by falling score, documents of equal score in store order
RefRanked(docs, q) ==
    LET M == RefMatches(docs, q)
        Rank(i) == 1 + Cardinality({j \in M :
                         \/ RefScore(docs[j], q) > RefScore(docs[i], q)
                         \/ RefScore(docs[j], q) = RefScore(docs[i], q) /\ j < i})
    IN  [r \in 1..Cardinality(M) |-> docs[CHOOSE i \in M : Rank(i) = r]]

\* the first k of them
RefSearch(docs, q, k) ==
    LET ranked == RefRanked(docs, q)
    IN  SubSeq(ranked, 1, IF k < Len(ranked) THEN k ELSE Len(ranked))

Searched == fcall.op = "similarity_search"

\* C17, as claimed: a search returns at most k documents, for every integer k
C17_AtMostK == Searched => Len(fret) <= fcall.k

\* C17, amended: for k >= 0 a search returns at most k documents, namely the
\* first k of those that score or all of them when they are fewer; for k < 0 it
\* returns all that score but the last -k, which is more than k documents
C17_AtMostKWhenKIsNotNegative ==
    Searched =>
      LET n == Cardinality(RefMatches(indexed, fcall.query))
          k == fcall.k
      IN  IF k >= 0
          THEN Len(fret) <= k /\ Len(fret) = (IF k < n THEN k ELSE n)
          ELSE Len(fret) = (IF n + k < 0 THEN 0 ELSE n + k) /\ Len(fret) > k

\* three documents score and k = 2 cuts the result to two
C17_Witness ==
    /\ Searched
    /\ fcall.k = 2
    /\ Cardinality(RefMatches(indexed, fcall.query)) = 3
    /\ Len(fret) = 2

\* C18: for k >= 0, similarity_search returns what the ranking of the
\* specification gives: terms from the lowercased query split on whitespace, score
\* the sum over the terms of their occurrences in the lowercased content,
\* documents of score 0 dropped, falling score, equal scores in store order, the
\* first k
C18_SearchIsTheReferenceRanking ==
    (Searched /\ fcall.k >= 0) => fret = RefSearch(indexed, fcall.query, fcall.k)

\* a query of two terms whose result has a best document and then two of equal score
C18_Witness ==
    /\ Searched
    /\ Cardinality(TermStarts(fcall.query)) = 2
    /\ Len(fret) = 3
    /\ RefScore(fret[1], fcall.query) > RefScore(fret[2], fcall.query)
    /\ RefScore(fret[2], fcall.query) = RefScore(fret[3], fcall.query)

\* C19: a search leaves the store's documents as they were indexed, and what it
\* returns depends on the indexed documents, the query and k alone, whatever
\* searches were made before
C19_SearchIsPure ==
    /\ documents = indexed
    /\ Searched => fret = similarity_search(indexed, fcall.query, fcall.k)

\* a search that found some of the store's documents and left others out
C19_Witness ==
    /\ Searched
    /\ Len(fret) >= 1
    /\ Len(fret) < Len(documents)
    /\ documents = indexed

\* C20: for a query of one term, a document that has the term three times comes
\* before a document that has it once: the second is never returned without the
\* first ahead of it, and when these two are the documents that score and
\* k >= 2, the result is the two of them in that order
C20_ThreeOccurrencesBeforeOne ==
    (Searched /\ Cardinality(TermStarts(fcall.query)) = 1) =>
      LET q == lower(fcall.query)
          term == TermAt(q, CHOOSE i \in TermStarts(q) : TRUE)
          Has(i, n) == Occurrences(lower(indexed[i].page_content), term) = n
      IN  \A i, j \in DOMAIN indexed :
            (Has(i, 3) /\ Has(j, 1)) =>
              /\ \A b \in DOMAIN fret :
                   fret[b] = indexed[j] => \E a \in 1..(b - 1) : fret[a] = indexed[i]
              /\ (fcall.k >= 2 /\ RefMatches(indexed, fcall.query) = {i, j})
                   => fret = << indexed[i], indexed[j] >>

\* the document with one "a" is stored first and returned second
C20_Witness ==
    /\ Searched
    /\ fcall.query = <<"A">>
    /\ fcall.k = 2
    /\ indexed = << Document("d1", <<"a">>), Document("d2", <<"a", "A", "a">>) >>
    /\ fret = << Document("d2", <<"a", "A", "a">>), Document("d1", <<"a">>) >>

\* C21: the answer synthesis path never hands its caller an error message: what
\* rag_query returns after an internal failure is the generic fallback answer
C21_SynthesisGivesNoErrorText ==
    obs.kind \notin {"error_al_procesar_la_consulta", "error_en_consulta_rag"}

\* C22: a simulated model answers by the first category, in the order return,
\* policy, support, of which the lowercased prompt contains a keyword
\* ("devolución" or "devolver"; "política"; "soporte" or "ayuda"), and with the
\* generic answer when it contains none
C22_ClassifiesByPriority ==
    fcall.op \in {"RAG_SimulatedLLM", "Agent_SimulatedLLM"} =>
      LET text == lower(fcall.args[1])
          Has(keyword) == Contains(text, keyword)
      IN  fret.category =
            IF Has(devolucion) \/ Has(devolver) THEN "devolucion"
            ELSE IF Has(politica) THEN "politica"
            ELSE IF Has(soporte) \/ Has(ayuda) THEN "soporte"
            ELSE "generica"

\* C23: total_interactions, successful_interactions and errors never decrease
\* except in a reset_stats call, and every reset_stats call leaves all three at 0
\* and tools_used empty; process_query and get_stats never lower them
C23_OnlyResetStatsLowersStats ==
    [][ /\ ( \/ stats'.total_interactions < stats.total_interactions
             \/ stats'.successful_interactions < stats.successful_interactions
             \/ stats'.errors < stats.errors )
           => (pc = "idle" /\ last_call'.name = "reset_stats")
        /\ last_call'.name = "reset_stats"
           => /\ stats'.total_interactions = 0
              /\ stats'.successful_interactions = 0
              /\ stats'.errors = 0
              /\ stats'.tools_used = << >> ]_vars

\* a reset after two queries, the second of which ended in "error"
C23_Witness ==
    /\ last_call = Call("reset_stats", "returned", "none")
    /\ entry.total_interactions = 1
    /\ result.agent_status = "error"
    /\ stats.total_interactions = 0

\* C24: a process_query made while the EcoAgent has no agent returns the
\* "agent not available" message with agent_status "success", and is counted in
\* successful_interactions and not in errors
C24_NoAgentIsASuccess ==
    (Returned /\ ~agent) =>
        /\ result.response = "agente_no_disponible"
        /\ result.agent_status = "success"
        /\ stats.successful_interactions = entry.successful_interactions + 1
        /\ stats.errors = entry.errors

\* a second query answered without an agent, after an initialisation that failed
C24_Witness ==
    /\ Returned
    /\ ~agent
    /\ rag_pipeline
    /\ result.response = "agente_no_disponible"
    /\ entry.total_interactions = 1

\* C25: whenever session_state.agent_initialized is true, the EcoAgentApp of the
\* current script run has an agent
C25_InitializedAppHasAnAgent == session_state.agent_initialized => app_agent

\* C26: in the session stats, total_queries = successful_queries + errors
C26_SessionTotalIsSuccessesPlusErrors ==
    session_state.stats.total_queries
        = session_state.stats.successful_queries + session_state.stats.errors

\* C27: verificar_elegibilidad_producto answers with the message of the first
\* check that fails, in the order product exists, product flagged returnable,
\* date well formed, days within the period: an unknown product is reported
\* whatever the date, a product flagged non-returnable gets the non-eligibility
\* message whatever the date, and the date-format error is given exactly for an
\* existing, returnable product with a malformed date
C27_FirstFailingCheckAnswers ==
    fcall.op = "verificar_elegibilidad_producto" =>
      LET producto_id == fcall.args[1]
          known == producto_id \in DOMAIN productos_db
          returnable == known /\ productos_db[producto_id].elegible_devolucion
          well_formed == WellFormedDate(fcall.args[2])
      IN  /\ ~known => fret.kind = "error_producto_no_existe"
          /\ (known /\ ~returnable) => fret.kind = "no_elegible"
          /\ fret.kind = "error_formato_fecha" <=> (returnable /\ ~well_formed)
          /\ (returnable /\ well_formed) => fret.kind \in {"ya_no_elegible", "es_elegible"}

\* the non-returnable product asked about with a date that is no date
C27_Witness ==
    /\ fcall.op = "verificar_elegibilidad_producto"
    /\ fcall.args = << "PROD004", <<2024, 13, 1>> >>
    /\ fret.kind = "no_elegible"

\* C28: generar_etiqueta_devolucion makes out the label for every known product
\* with every known client, whatever the product's elegible_devolucion flag and
\* whatever was called before: also as the first call, and also right after
\* verificar_elegibilidad_producto rejected the same product
C28_LabelNeedsNoEligibility ==
    /\ []( ( /\ fcall.op = "generar_etiqueta_devolucion"
             /\ fcall.args[1] \in DOMAIN productos_db
             /\ fcall.args[2] \in clientes_db )
           => /\ fret.kind = "etiqueta"
              /\ fret.ids = {fcall.args[1], fcall.args[2]} )
    /\ [][ ( /\ fcall.op = "verificar_elegibilidad_producto"
             /\ fret.kind \in {"no_elegible", "ya_no_elegible"}
             /\ fcall'.op = "generar_etiqueta_devolucion"
             /\ fcall'.args[1] = fcall.args[1]
             /\ fcall'.args[2] \in clientes_db )
           => fret'.kind = "etiqueta" ]_vars

\* a label for the product that is flagged non-returnable
C28_Witness ==
    /\ fcall.op = "generar_etiqueta_devolucion"
    /\ fcall.args = <<"PROD004", "CLI001">>
    /\ ~productos_db["PROD004"].elegible_devolucion
    /\ fret.kind = "etiqueta"

\* C29: stats.tools_used is empty in every state: no process_query, whatever
\* capabilities its run dispatched, adds an entry to it, and the copy of the
\* stats a process_query returns has it empty as well
C29_ToolsUsedStaysEmpty ==
    /\ stats.tools_used = << >>
    /\ "stats" \in DOMAIN result => result.stats.tools_used = << >>

\* the second process_query, whose run has dispatched capabilities twice, the
\* last one making out a label, is about to return its success
C29_Witness ==
    /\ pc = "succeed"
    /\ iterations >= 2
    /\ obs.kind = "etiqueta"
    /\ stats.total_interactions = 2
    /\ stats.tools_used = << >>

\* C30: once create_eco_agent has completed (the pipeline is built and the
\* executor exists), the agent's use_simulated_model and its pipeline's
\* use_simulated_model are equal, also after a failed embeddings or LLM constructor
C30_AgentAndPipelineAgreeOnTheModel ==
    (agent /\ rag_pipeline) => use_simulated_model = pipeline.use_simulated_model

====
